---- MODULE Spec2Model ----
(***************************************************************************)
(* Model of packages/router/src/service.rs: RouterService, its history     *)
(* listener and the route matcher.  Strings are sequences of one-character *)
(* strings, so that trimming, splitting and prefix tests are computed the  *)
(* way the Rust code computes them.                                        *)
(***************************************************************************)
EXTENDS Naturals, Sequences, FiniteSets

\* ------------------------------------------------------------------ bounds
MaxSlots == 2
MaxQueries == 2
MaxPending == 1
MaxLen == 4

\* ------------------------------------------------------------ input domains
\* Scope identifiers handed in by the rendering runtime (opaque, comparable).
ScopeIds == {"A", "B"}

\* Route strings passed to register_total_route:
\*   ""  "/"  "/u/"  "/u/:i"
RouteInputs ==
    { <<>>,
      <<"/">>,
      <<"/", "u", "/">>,
      <<"/", "u", "/", ":", "i">> }

\* Paths the browser history can report:  "/"  "/u/"  "/u/7"
PathInputs ==
    { <<"/">>,
      <<"/", "u", "/">>,
      <<"/", "u", "/", "7">> }

\* Path of the location at construction (history.location().path()).
InitialPath == <<"/">>

\* Characters of the strings the matcher is probed with: the separator, the
\* parameter marker, and one letter in both cases.
Alphabet == {"/", ":", "a", "A"}

\* Every string of at most MaxLen characters.
Strings == UNION {[1..n -> Alphabet] : n \in 0..MaxLen}

VARIABLES
    slots,        \* Vec<(ScopeId, String)>: the registry
    root_found,   \* Cell<bool>
    location,     \* path of the BrowserHistory's current location
    pending,      \* change notifications the history has still to deliver
    pc,           \* position of the listener closure: "idle" or "regen"
    idx,          \* entries of slots the listener's loop has still to visit
    regen_calls,  \* scope ids passed to regen_route by the latest notification
    queries,      \* should_render calls of the current cycle: the argument
                  \* (scope) and the value returned (ret)
    reg_calls,    \* arguments of the register_total_route calls, in call order
    prev_won,     \* TRUE iff a should_render call returned true in the
                  \* cycle that the latest notification ended
    reg_in_cycle, \* TRUE iff register_total_route has been called after a
                  \* should_render call of the current cycle
    panicked,     \* TRUE iff a RefCell borrow has failed (the program stops)
    m_route,      \* a route string the matcher is probed with
    m_path,       \* a path string the matcher is probed with
    m_done,       \* TRUE iff the probe has been made
    m_ret         \* what the probe returned

probe_vars == <<m_route, m_path, m_done, m_ret>>

vars == <<slots, root_found, location, pending, pc, idx,
          regen_calls, queries, reg_calls, prev_won, reg_in_cycle,
          panicked, probe_vars>>

\* ------------------------------------------------------------ pure helpers
\* str::trim_end_matches('/')
RECURSIVE trim_end_matches(_)
trim_end_matches(s) ==
    IF Len(s) > 0 /\ s[Len(s)] = "/"
    THEN trim_end_matches(SubSeq(s, 1, Len(s) - 1))
    ELSE s

\* Variant of clean_route without the early return for "/".
clean_route_no_root(route) == trim_end_matches(route)

clean_route(route) ==
    IF route = <<"/">> THEN route ELSE trim_end_matches(route)

\* Variant of clean_path that returns the path as given.
clean_path_no_trim(path) == path

clean_path(path) ==
    IF path = <<"/">> THEN path ELSE trim_end_matches(path)

\* str::split('/') collected into a Vec: "" gives [""], "/" gives ["", ""].
RECURSIVE split(_)
split(s) ==
    IF \E i \in 1..Len(s) : s[i] = "/"
    THEN LET i == CHOOSE k \in 1..Len(s) :
                      /\ s[k] = "/"
                      /\ \A j \in 1..(k - 1) : s[j] # "/"
         IN  <<SubSeq(s, 1, i - 1)>> \o split(SubSeq(s, i + 1, Len(s)))
    ELSE <<s>>

\* str::starts_with(':')
starts_with_colon(r) == Len(r) > 0 /\ r[1] = ":"

\* Variant of route_matches_path without the comparison of the lengths:
\* the pieces are compared as far as both sides have one.
route_matches_path_no_len(route, path) ==
    LET route_pieces == split(route)
        path_pieces  == split(clean_path(path))
    IN  \A i \in 1..Len(route_pieces) :
            \/ i > Len(path_pieces)
            \/ starts_with_colon(route_pieces[i])
            \/ path_pieces[i] = route_pieces[i]

route_matches_path(route, path) ==
    LET route_pieces == split(route)
        path_pieces  == split(clean_path(path))
    IN  IF Len(route_pieces) # Len(path_pieces)
        THEN FALSE
        ELSE \A i \in 1..Len(route_pieces) :
                \/ starts_with_colon(route_pieces[i])
                \/ path_pieces[i] = route_pieces[i]

\* Variant of find that returns the last entry of the scope.
find_last(roots, scope) ==
    IF \E i \in 1..Len(roots) : roots[i][1] = scope
    THEN CHOOSE i \in 1..Len(roots) :
            /\ roots[i][1] = scope
            /\ \A j \in (i + 1)..Len(roots) : roots[j][1] # scope
    ELSE 0

\* roots.iter().find(|(id, route)| id == &scope): the index of the first
\* entry of the scope, 0 for None.
find(roots, scope) ==
    IF \E i \in 1..Len(roots) : roots[i][1] = scope
    THEN CHOOSE i \in 1..Len(roots) :
            /\ roots[i][1] = scope
            /\ \A j \in 1..(i - 1) : roots[j][1] # scope
    ELSE 0

\* ------------------------------------------------------------------- state
\* What a probe of the matcher has returned before it is made.
NoProbe ==
    [direct |-> FALSE, stored |-> FALSE, route_slash |-> FALSE,
     path_slash |-> FALSE]

\* The service right after RouterService::new.
NewService ==
    /\ slots = <<>>
    /\ root_found = FALSE
    /\ location = InitialPath
    /\ pending = 0
    /\ pc = "idle"
    /\ idx = 0
    /\ regen_calls = <<>>
    /\ queries = <<>>
    /\ reg_calls = <<>>
    /\ prev_won = FALSE
    /\ reg_in_cycle = FALSE
    /\ panicked = FALSE

Init ==
    /\ NewService
    /\ m_route = <<>>
    /\ m_path = <<>>
    /\ m_done = FALSE
    /\ m_ret = NoProbe

\* ----------------------------------------------------------------- actions
\* push_route: history.push(route); the history delivers its change
\* notification to the listener afterwards.
\* Variant of push_route that also clears root_found.
push_route_resets(route) ==
    /\ pc = "idle"
    /\ pending < MaxPending
    /\ location' = route
    /\ pending' = pending + 1
    /\ root_found' = FALSE
    /\ UNCHANGED <<slots, pc, idx, regen_calls, queries,
                   reg_calls, prev_won, reg_in_cycle,
                   panicked, probe_vars>>

push_route(route) ==
    /\ pc = "idle"
    /\ pending < MaxPending
    /\ location' = route
    /\ pending' = pending + 1
    /\ UNCHANGED <<slots, root_found, pc, idx, regen_calls, queries,
                   reg_calls, prev_won, reg_in_cycle,
                   panicked, probe_vars>>

\* Variant of register_total_route that replaces the entry a scope has.
register_total_route_replace(route, scope, fallback) ==
    /\ pc = "idle"
    /\ Len(slots) < MaxSlots
    /\ slots' = IF find(slots, scope) # 0
                THEN [slots EXCEPT ![find(slots, scope)] =
                                       <<scope, clean_route(route)>>]
                ELSE Append(slots, <<scope, clean_route(route)>>)
    /\ reg_calls' = Append(reg_calls, <<route, scope>>)
    /\ reg_in_cycle' = (reg_in_cycle \/ queries # <<>>)
    /\ UNCHANGED <<root_found, location, pending, pc, idx, regen_calls,
                   queries, prev_won, panicked, probe_vars>>

\* Variant of register_total_route that stores the fallback pattern ""
\* when the fallback argument is true.
register_total_route_fallback_empty(route, scope, fallback) ==
    /\ pc = "idle"
    /\ Len(slots) < MaxSlots
    /\ slots' = Append(slots, <<scope, IF fallback THEN <<>>
                                       ELSE clean_route(route)>>)
    /\ reg_calls' = Append(reg_calls, <<route, scope>>)
    /\ reg_in_cycle' = (reg_in_cycle \/ queries # <<>>)
    /\ UNCHANGED <<root_found, location, pending, pc, idx, regen_calls,
                   queries, prev_won, panicked, probe_vars>>

register_total_route(route, scope, fallback) ==
    /\ pc = "idle"
    /\ Len(slots) < MaxSlots
    /\ slots' = Append(slots, <<scope, clean_route(route)>>)
    /\ reg_calls' = Append(reg_calls, <<route, scope>>)
    /\ reg_in_cycle' = (reg_in_cycle \/ queries # <<>>)
    /\ UNCHANGED <<root_found, location, pending, pc, idx, regen_calls,
                   queries, prev_won, panicked, probe_vars>>

\* Variants of should_render_body, each with one plausible slip.
\* The early return on root_found is missing.
should_render_body_no_guard(scope) ==
    LET root == find(slots, scope)
    IN  IF root # 0
        THEN IF route_matches_path(slots[root][2], location)
             THEN [ret |-> TRUE, found |-> TRUE]
             ELSE IF slots[root][2] = <<>>
                  THEN [ret |-> TRUE, found |-> TRUE]
                  ELSE [ret |-> FALSE, found |-> root_found]
        ELSE [ret |-> FALSE, found |-> root_found]

\* The fallback branch (route == "") is missing.
should_render_body_no_fallback(scope) ==
    IF root_found
    THEN [ret |-> FALSE, found |-> root_found]
    ELSE LET root == find(slots, scope)
         IN  IF root # 0 /\ route_matches_path(slots[root][2], location)
             THEN [ret |-> TRUE, found |-> TRUE]
             ELSE [ret |-> FALSE, found |-> root_found]

\* The fallback claims only when no entry of the registry matches the path.
should_render_body_prefers_match(scope) ==
    IF root_found
    THEN [ret |-> FALSE, found |-> root_found]
    ELSE LET root == find(slots, scope)
         IN  IF root # 0
             THEN IF route_matches_path(slots[root][2], location)
                  THEN [ret |-> TRUE, found |-> TRUE]
                  ELSE IF /\ slots[root][2] = <<>>
                          /\ \A i \in 1..Len(slots) :
                                ~route_matches_path(slots[i][2], location)
                       THEN [ret |-> TRUE, found |-> TRUE]
                       ELSE [ret |-> FALSE, found |-> root_found]
             ELSE [ret |-> FALSE, found |-> root_found]

\* The fallback branch returns true without self.root_found.set(true).
should_render_body_fallback_no_set(scope) ==
    IF root_found
    THEN [ret |-> FALSE, found |-> root_found]
    ELSE LET root == find(slots, scope)
         IN  IF root # 0
             THEN IF route_matches_path(slots[root][2], location)
                  THEN [ret |-> TRUE, found |-> TRUE]
                  ELSE IF slots[root][2] = <<>>
                       THEN [ret |-> TRUE, found |-> root_found]
                       ELSE [ret |-> FALSE, found |-> root_found]
             ELSE [ret |-> FALSE, found |-> root_found]

\* A scope without an entry is treated as the fallback.
should_render_body_none_claims(scope) ==
    IF root_found
    THEN [ret |-> FALSE, found |-> root_found]
    ELSE LET root == find(slots, scope)
         IN  IF root # 0
             THEN IF route_matches_path(slots[root][2], location)
                  THEN [ret |-> TRUE, found |-> TRUE]
                  ELSE IF slots[root][2] = <<>>
                       THEN [ret |-> TRUE, found |-> TRUE]
                       ELSE [ret |-> FALSE, found |-> root_found]
             ELSE [ret |-> TRUE, found |-> TRUE]

\* The matching branch returns true without self.root_found.set(true).
should_render_body_match_no_set(scope) ==
    IF root_found
    THEN [ret |-> FALSE, found |-> root_found]
    ELSE LET root == find(slots, scope)
         IN  IF root # 0
             THEN IF route_matches_path(slots[root][2], location)
                  THEN [ret |-> TRUE, found |-> root_found]
                  ELSE IF slots[root][2] = <<>>
                       THEN [ret |-> TRUE, found |-> TRUE]
                       ELSE [ret |-> FALSE, found |-> root_found]
             ELSE [ret |-> FALSE, found |-> root_found]

\* The branch that returns false for a pattern that does not match sets
\* root_found all the same.
should_render_body_miss_sets(scope) ==
    IF root_found
    THEN [ret |-> FALSE, found |-> root_found]
    ELSE LET root == find(slots, scope)
         IN  IF root # 0
             THEN IF route_matches_path(slots[root][2], location)
                  THEN [ret |-> TRUE, found |-> TRUE]
                  ELSE IF slots[root][2] = <<>>
                       THEN [ret |-> TRUE, found |-> TRUE]
                       ELSE [ret |-> FALSE, found |-> TRUE]
             ELSE [ret |-> FALSE, found |-> root_found]

\* The body of should_render in the current state: the value it returns
\* (ret) and the value root_found holds when it returns (found).
should_render_body(scope) ==
    IF root_found
    THEN [ret |-> FALSE, found |-> root_found]
    ELSE LET root == find(slots, scope)
         IN  IF root # 0
             THEN IF route_matches_path(slots[root][2], location)
                  THEN [ret |-> TRUE, found |-> TRUE]
                  ELSE IF slots[root][2] = <<>>
                       THEN [ret |-> TRUE, found |-> TRUE]
                       ELSE [ret |-> FALSE, found |-> root_found]
             ELSE [ret |-> FALSE, found |-> root_found]

should_render(scope) ==
    /\ pc = "idle"
    /\ Len(queries) < MaxQueries
    /\ LET out == should_render_body(scope)
       IN  /\ root_found' = out.found
           /\ queries' = Append(queries, [scope |-> scope, ret |-> out.ret])
    /\ UNCHANGED <<slots, location, pending, pc, idx, regen_calls,
                   reg_calls, prev_won, reg_in_cycle,
                   panicked, probe_vars>>

\* Variant of listener_reset that forgets _root_found.set(false).
listener_reset_keeps_flag ==
    /\ pc = "idle"
    /\ pending > 0
    /\ pending' = pending - 1
    /\ pc' = "regen"
    /\ idx' = Len(slots)
    /\ regen_calls' = <<>>
    /\ prev_won' = (\E i \in 1..Len(queries) : queries[i].ret)
    /\ queries' = <<>>
    /\ reg_in_cycle' = FALSE
    /\ UNCHANGED <<slots, root_found, location, reg_calls,
                   panicked, probe_vars>>

\* The listener closure, first statement: _root_found.set(false); then the
\* loop over _slots.iter().rev() starts at the last entry.
listener_reset ==
    /\ pc = "idle"
    /\ pending > 0
    /\ pending' = pending - 1
    /\ root_found' = FALSE
    /\ pc' = "regen"
    /\ idx' = Len(slots)
    /\ regen_calls' = <<>>
    /\ prev_won' = (\E i \in 1..Len(queries) : queries[i].ret)
    /\ queries' = <<>>
    /\ reg_in_cycle' = FALSE
    /\ UNCHANGED <<slots, location, reg_calls, panicked, probe_vars>>

\* Variants of listener_regen.
\* The loop runs over _slots.iter() without rev().
listener_regen_forward ==
    /\ pc = "regen"
    /\ idx > 0
    /\ regen_calls' = Append(regen_calls, slots[Len(slots) - idx + 1][1])
    /\ idx' = idx - 1
    /\ UNCHANGED <<slots, root_found, location, pending, pc, queries,
                   reg_calls, prev_won, reg_in_cycle,
                   panicked, probe_vars>>

\* The loop skips an entry whose scope it has already regenerated.
listener_regen_dedup ==
    /\ pc = "regen"
    /\ idx > 0
    /\ regen_calls' =
          IF \E k \in 1..Len(regen_calls) : regen_calls[k] = slots[idx][1]
          THEN regen_calls
          ELSE Append(regen_calls, slots[idx][1])
    /\ idx' = idx - 1
    /\ UNCHANGED <<slots, root_found, location, pending, pc, queries,
                   reg_calls, prev_won, reg_in_cycle,
                   panicked, probe_vars>>

\* One iteration of the loop: regen(*slot).
listener_regen ==
    /\ pc = "regen"
    /\ idx > 0
    /\ regen_calls' = Append(regen_calls, slots[idx][1])
    /\ idx' = idx - 1
    /\ UNCHANGED <<slots, root_found, location, pending, pc, queries,
                   reg_calls, prev_won, reg_in_cycle,
                   panicked, probe_vars>>

\* The loop is exhausted and the closure returns.
listener_return ==
    /\ pc = "regen"
    /\ idx = 0
    /\ pc' = "idle"
    /\ UNCHANGED <<slots, root_found, location, pending, idx, regen_calls,
                   queries, reg_calls, prev_won, reg_in_cycle,
                   panicked, probe_vars>>

Next ==
    \/ \E route \in PathInputs : push_route(route)
    \/ \E route \in RouteInputs, scope \in ScopeIds, fallback \in BOOLEAN :
          register_total_route(route, scope, fallback)
    \/ \E scope \in ScopeIds : should_render(scope)
    \/ listener_reset
    \/ listener_regen
    \/ listener_return

Spec == Init /\ [][Next]_vars

\* ------------------------------------- calls from inside the regen callback
\* should_render called by regen_route while the listener's loop holds
\* _slots.borrow_mut(): past the root_found check, self.slots.borrow()
\* panics (already mutably borrowed).
should_render_in_callback(scope) ==
    /\ pc = "regen"
    /\ regen_calls # <<>>
    /\ ~panicked
    /\ Len(queries) < MaxQueries
    /\ IF root_found
       THEN /\ queries' = Append(queries, [scope |-> scope, ret |-> FALSE])
            /\ panicked' = panicked
       ELSE /\ queries' = queries
            /\ panicked' = TRUE
    /\ UNCHANGED <<slots, root_found, location, pending, pc, idx,
                   regen_calls, reg_calls, prev_won, reg_in_cycle,
                   probe_vars>>

\* register_total_route called by regen_route while the listener's loop
\* holds _slots.borrow_mut(): self.slots.borrow_mut() panics.
register_total_route_in_callback(route, scope, fallback) ==
    /\ pc = "regen"
    /\ regen_calls # <<>>
    /\ ~panicked
    /\ Len(slots) < MaxSlots
    /\ panicked' = TRUE
    /\ UNCHANGED <<slots, root_found, location, pending, pc, idx,
                   regen_calls, queries, reg_calls, prev_won, reg_in_cycle,
                   probe_vars>>

\* A panic ends the program.
ReentrantNext ==
    \/ ~panicked /\ Next
    \/ \E scope \in ScopeIds : should_render_in_callback(scope)
    \/ \E route \in RouteInputs, scope \in ScopeIds, fallback \in BOOLEAN :
          register_total_route_in_callback(route, scope, fallback)

ReentrantSpec == Init /\ [][ReentrantNext]_vars

\* ------------------------------------------------- the matcher on strings
\* The inputs of the probe are any two strings.
StringInit ==
    /\ NewService
    /\ m_route \in Strings
    /\ m_path \in Strings
    /\ m_done = FALSE
    /\ m_ret = NoProbe

\* The matcher applied to the route as given (direct), to the route as
\* register_total_route stores it (stored), and the latter again with a
\* "/" appended to the route (route_slash) and to the path (path_slash).
matcher_probe ==
    /\ ~m_done
    /\ m_done' = TRUE
    /\ m_ret' =
          [direct      |-> route_matches_path(m_route, m_path),
           stored      |-> route_matches_path(clean_route(m_route), m_path),
           route_slash |-> route_matches_path(
                              clean_route(Append(m_route, "/")), m_path),
           path_slash  |-> route_matches_path(
                              clean_route(m_route), Append(m_path, "/"))]
    /\ UNCHANGED <<slots, root_found, location, pending, pc, idx,
                   regen_calls, queries, reg_calls, prev_won, reg_in_cycle,
                   panicked, m_route, m_path>>

StringNext == matcher_probe

StringSpec == StringInit /\ [][StringNext]_vars

\* ------------------------------------------- registration of any string
\* The route of the registrations is any string.
RegisterInit ==
    /\ NewService
    /\ m_route \in Strings
    /\ m_path = <<>>
    /\ m_done = FALSE
    /\ m_ret = NoProbe

RegisterNext ==
    \E scope \in ScopeIds, fallback \in BOOLEAN :
        register_total_route(m_route, scope, fallback)

RegisterSpec == RegisterInit /\ [][RegisterNext]_vars

\* ======================================================= claim vocabulary
\* The scope has an entry in the registry.
Registered(roots, scope) == \E i \in 1..Len(roots) : roots[i][1] = scope

\* The least index of an entry of the scope (the earliest registration).
Earliest(roots, scope) ==
    CHOOSE i \in 1..Len(roots) :
        /\ roots[i][1] = scope
        /\ \A j \in 1..Len(roots) : roots[j][1] = scope => i <= j

\* The entry's pattern matches the path or is the empty fallback pattern.
Claims(route, path) == route_matches_path(route, path) \/ route = <<>>

\* The scope's earliest pattern matches the path or is the fallback.
Eligible(roots, path, scope) ==
    /\ Registered(roots, scope)
    /\ Claims(roots[Earliest(roots, scope)][2], path)

\* Indices of the queries of the current cycle that returned true.
Winners == {i \in 1..Len(queries) : queries[i].ret}

\* This step is a should_render call; Asked is its argument and Answer the
\* value it returned.
QueryStep == Len(queries') = Len(queries) + 1
Asked == queries'[Len(queries')].scope
Answer == queries'[Len(queries')].ret

\* How often the latest notification passed the scope to regen_route.
CallbackCount(scope) ==
    Cardinality({k \in 1..Len(regen_calls) : regen_calls[k] = scope})

\* How many entries the scope has in the registry.
EntryCount(scope) ==
    Cardinality({i \in 1..Len(slots) : slots[i][1] = scope})

\* The listener's loop is exhausted: every callback of this notification
\* has been made.
DispatchDone == pc = "regen" /\ idx = 0

\* No navigation since the cycle began: a push_route leaves a notification
\* pending until the listener opens the next cycle, so the current path has
\* been the same for every query of this cycle.
FixedPath == pc = "idle" /\ pending = 0

\* A cycle opened by a notification over the registry as it is now, with
\* the path fixed since.
StableCycle ==
    /\ FixedPath
    /\ Len(slots) > 0
    /\ Len(regen_calls) = Len(slots)

\* Every query of the cycle so far saw the registry as it is now, and the
\* path as it is now.
FixedCycle == FixedPath /\ ~reg_in_cycle

\* The registry with, for every scope, only its earliest entry.
RECURSIVE OnlyEarliest(_)
OnlyEarliest(roots) ==
    IF roots = <<>>
    THEN <<>>
    ELSE LET front == SubSeq(roots, 1, Len(roots) - 1)
             last  == roots[Len(roots)]
         IN  IF Registered(front, last[1])
             THEN OnlyEarliest(front)
             ELSE Append(OnlyEarliest(front), last)

\* ================================================================= claims
\* C1: at most one should_render call returns true between two consecutive
\* navigation-change notifications, and between construction and the first.
C1_AtMostOneWinner == Cardinality(Winners) <= 1

\* Two different scopes, both able to claim, were queried: the first won
\* and the second was refused.
C1_Witness ==
    /\ Len(queries) >= 2
    /\ queries[1].ret
    /\ ~queries[2].ret
    /\ queries[1].scope # queries[2].scope
    /\ Eligible(slots, location, queries[2].scope)

\* C2: after one notification, with the path fixed, querying every
\* registered scope once in notification order yields exactly one true when
\* some registered pattern matches the path or is the fallback, and no true
\* otherwise.
C2_QueriedInNotificationOrder ==
    /\ StableCycle
    /\ Len(queries) = Len(regen_calls)
    /\ \A k \in 1..Len(queries) : queries[k].scope = regen_calls[k]
    /\ \A k, l \in 1..Len(regen_calls) :
          regen_calls[k] = regen_calls[l] => k = l

C2_OneWinnerPerRound ==
    C2_QueriedInNotificationOrder =>
        Cardinality(Winners) =
            IF \E i \in 1..Len(slots) : Claims(slots[i][2], location)
            THEN 1 ELSE 0

\* Two scopes with overlapping patterns, both queried, one winner.
C2_Witness ==
    /\ C2_QueriedInNotificationOrder
    /\ Len(slots) >= 2
    /\ \A i \in 1..Len(slots) : route_matches_path(slots[i][2], location)
    /\ Cardinality(Winners) = 1

\* C3: a notification has reset root_found before its first callback, and
\* the prior winner does not carry over: in every cycle the first query by
\* a scope that can claim returns true.
C3_ResetBeforeCallbacks ==
    [][ /\ (pc' = "regen" => ~root_found')
        /\ (QueryStep /\ Winners = {} /\ Eligible(slots, location, Asked)
              => Answer) ]_vars

\* A cycle was won, a notification followed, and the new cycle was won.
C3_Witness == prev_won /\ pc = "idle" /\ Winners # {}

\* C4: the callbacks of a notification run over the registry from the last
\* entry to the first, each with the scope id of its entry.
C4_ReverseRegistrationOrder ==
    \A k \in 1..Len(regen_calls) :
        /\ Len(regen_calls) + idx - k + 1 \in 1..Len(slots)
        /\ regen_calls[k] = slots[Len(regen_calls) + idx - k + 1][1]

\* A notification over two entries of different scopes has completed.
C4_Witness ==
    /\ pc = "idle"
    /\ Len(regen_calls) = 2
    /\ regen_calls[1] # regen_calls[2]

\* C5 as stated: per notification every registered scope id gets exactly
\* one callback and an unregistered one gets none.
C5_OncePerScope ==
    DispatchDone =>
        \A scope \in ScopeIds :
            CallbackCount(scope) =
                IF Registered(slots, scope) THEN 1 ELSE 0

\* C5 amended: per notification there is one callback per registry entry,
\* so a scope gets as many callbacks as it has entries.
C5_OncePerEntry ==
    DispatchDone =>
        \A scope \in ScopeIds : CallbackCount(scope) = EntryCount(scope)

\* A scope registered twice got two callbacks, an unregistered one none.
C5_Witness ==
    /\ DispatchDone
    /\ \E scope \in ScopeIds : CallbackCount(scope) = 2
    /\ \E scope \in ScopeIds :
          ~Registered(slots, scope) /\ CallbackCount(scope) = 0

\* C6: with root_found false, a query for a scope whose pattern is "" sets
\* the flag and returns true whatever the path.  Scenario: A registered
\* with /u/:i, then B with "", path /u/7, notification order [B, A]: B
\* queried first returns true and A queried next returns false.
C6_ScenarioSetup ==
    /\ slots = << <<"A", <<"/", "u", "/", ":", "i">> >>, <<"B", <<>> >> >>
    /\ location = <<"/", "u", "/", "7">>
    /\ FixedPath
    /\ regen_calls = <<"B", "A">>
    /\ Len(queries) = 2
    /\ queries[1].scope = "B"
    /\ queries[2].scope = "A"

C6_FallbackClaimsUnconditionally ==
    [][ /\ (/\ QueryStep
            /\ ~root_found
            /\ Registered(slots, Asked)
            /\ slots[Earliest(slots, Asked)][2] = <<>>
            => Answer /\ root_found')
        /\ (C6_ScenarioSetup' => queries'[1].ret /\ ~queries'[2].ret) ]_vars

\* The scenario has been played: B claimed although A matches /u/7.
C6_Witness ==
    /\ C6_ScenarioSetup
    /\ route_matches_path(slots[1][2], location)
    /\ queries[1].ret
    /\ ~queries[2].ret

\* C7 as stated: with the path fixed, a query for a fallback scope returns
\* true iff no scope queried earlier in the cycle had a pattern that matched
\* the path.
C7_FallbackIffNoEarlierMatch ==
    [][ /\ QueryStep
        /\ FixedCycle
        /\ Registered(slots, Asked)
        /\ slots[Earliest(slots, Asked)][2] = <<>>
        /\ \A k \in 1..Len(queries) : queries[k].scope # Asked
        => (Answer <=>
              ~\E k \in 1..Len(queries) :
                  /\ Registered(slots, queries[k].scope)
                  /\ route_matches_path(
                         slots[Earliest(slots, queries[k].scope)][2],
                         location)) ]_vars

\* C7 amended: ... iff no scope queried earlier in the cycle had a pattern
\* that matched the path or was itself the empty fallback pattern.
C7_FallbackIffNoEarlierClaim ==
    [][ /\ QueryStep
        /\ FixedCycle
        /\ Registered(slots, Asked)
        /\ slots[Earliest(slots, Asked)][2] = <<>>
        => (Answer <=>
              ~\E k \in 1..Len(queries) :
                  Eligible(slots, location, queries[k].scope)) ]_vars

\* A fallback scope was refused after a scope with a matching pattern won.
C7_Witness ==
    /\ FixedCycle
    /\ Len(queries) >= 2
    /\ queries[1].ret
    /\ slots[Earliest(slots, queries[1].scope)][2] # <<>>
    /\ ~queries[2].ret
    /\ Registered(slots, queries[2].scope)
    /\ slots[Earliest(slots, queries[2].scope)][2] = <<>>

\* C8: a query for a scope without an entry returns false and leaves
\* root_found and the registry as they were, so that a scope that can claim
\* and is queried after only such queries still wins.
C8_UnregisteredReturnsFalse ==
    [][ /\ (QueryStep /\ ~Registered(slots, Asked)
              => ~Answer /\ root_found' = root_found /\ slots' = slots)
        /\ (/\ QueryStep
            /\ queries # <<>>
            /\ \A k \in 1..Len(queries) :
                  ~Registered(slots, queries[k].scope)
            /\ Eligible(slots, location, Asked)
            => Answer) ]_vars

\* A scope without an entry was refused, then a registered scope won.
C8_Witness ==
    /\ Len(queries) >= 2
    /\ ~Registered(slots, queries[1].scope)
    /\ ~queries[1].ret
    /\ queries[2].ret

\* C9: should_render answers as it would over the registry that holds only
\* the earliest entry of every scope.
C9_FirstRegistrationDecides ==
    [][ QueryStep =>
          (Answer <=>
             /\ ~root_found
             /\ \E i \in 1..Len(OnlyEarliest(slots)) :
                   /\ OnlyEarliest(slots)[i][1] = Asked
                   /\ Claims(OnlyEarliest(slots)[i][2], location)) ]_vars

\* A scope registered twice, whose later pattern alone could claim, was
\* queried in a fresh cycle and refused.
C9_Witness ==
    /\ Len(slots) >= 2
    /\ slots[1][1] = slots[2][1]
    /\ ~Claims(slots[1][2], location)
    /\ Claims(slots[2][2], location)
    /\ Len(queries) >= 1
    /\ queries[1].scope = slots[1][1]
    /\ ~queries[1].ret
    /\ FixedCycle

\* C10: the registry is the sequence of (scope, normalized pattern) pairs
\* of all register_total_route calls, in call order.
C10_RegistryIsCallLog ==
    /\ Len(slots) = Len(reg_calls)
    /\ \A i \in 1..Len(reg_calls) :
          slots[i] = <<reg_calls[i][2], clean_route(reg_calls[i][1])>>

\* Two registrations of one scope, one of them normalized, followed by a
\* notification and a query.
C10_Witness ==
    /\ Len(slots) = 2
    /\ slots[1][1] = slots[2][1]
    /\ \E i \in 1..2 : reg_calls[i][1] # slots[i][2]
    /\ Len(regen_calls) = 2
    /\ pc = "idle"
    /\ queries # <<>>

\* ------------------------------------------- vocabulary for string claims
EndsWithSlash(s) == Len(s) > 0 /\ s[Len(s)] = "/"

\* stored is given without the "/" characters at its end.
IsStripped(stored, given) ==
    /\ Len(stored) <= Len(given)
    /\ SubSeq(given, 1, Len(stored)) = stored
    /\ \A i \in (Len(stored) + 1)..Len(given) : given[i] = "/"
    /\ ~EndsWithSlash(stored)

\* The string without the "/" characters at its end.
StripAll(s) ==
    LET keep == {k \in 0..Len(s) : k = 0 \/ s[k] # "/"}
        n    == CHOOSE k \in keep : \A l \in keep : l <= k
    IN  SubSeq(s, 1, n)

\* The path as the matcher normalizes it.
NormalPath(x) == IF x = <<"/">> THEN x ELSE StripAll(x)

\* The positions of the separators, the number of segments, and the k-th
\* segment of a string split on "/".
Separators(s) == {i \in 1..Len(s) : s[i] = "/"}
SegmentCount(s) == Cardinality(Separators(s)) + 1
SeparatorAt(s, k) ==
    IF k = 0 THEN 0
    ELSE IF k > Cardinality(Separators(s)) THEN Len(s) + 1
    ELSE CHOOSE i \in Separators(s) :
             Cardinality({j \in Separators(s) : j <= i}) = k
Segment(s, k) == SubSeq(s, SeparatorAt(s, k - 1) + 1, SeparatorAt(s, k) - 1)

\* The segment is a parameter placeholder.
IsParameter(seg) == Len(seg) > 0 /\ seg[1] = ":"

\* C11: every stored pattern is "/" or does not end with "/"; a route other
\* than "/" is stored without the "/" characters at its end, and "/" is
\* stored as "/".
C11_StoredPatternsNormalized ==
    /\ Len(slots) = Len(reg_calls)
    /\ \A i \in 1..Len(slots) :
          /\ slots[i][2] = <<"/">> \/ ~EndsWithSlash(slots[i][2])
          /\ reg_calls[i][1] = <<"/">> => slots[i][2] = <<"/">>
          /\ reg_calls[i][1] # <<"/">>
                => IsStripped(slots[i][2], reg_calls[i][1])

\* A route with two "/" at its end has been stored without them.
C11_Witness ==
    /\ Len(slots) >= 1
    /\ EndsWithSlash(reg_calls[1][1])
    /\ slots[1][2] # <<>>
    /\ Len(reg_calls[1][1]) = Len(slots[1][2]) + 2

\* C12: when the pattern and the normalized path have different numbers of
\* segments the matcher returns false, with or without parameter segments.
C12_CountMismatchNeverMatches ==
    m_done /\ SegmentCount(m_route) # SegmentCount(NormalPath(m_path))
        => ~m_ret.direct

\* A pattern with a parameter segment and more segments than the path, all
\* of whose segments agree as far as the path goes, was refused.
C12_Witness ==
    /\ m_done
    /\ ~m_ret.direct
    /\ SegmentCount(m_route) = 3
    /\ SegmentCount(NormalPath(m_path)) = 2
    /\ IsParameter(Segment(m_route, 3))
    /\ \A k \in 1..2 : Segment(m_route, k) = Segment(NormalPath(m_path), k)

\* C13: the matcher returns true exactly when the segment counts agree and
\* at every position the pattern segment is a parameter and the path
\* segment is not empty, or the two segments are equal.
C13_MatchesExactlyWhen ==
    m_done =>
        (m_ret.direct <=>
            /\ SegmentCount(m_route) = SegmentCount(NormalPath(m_path))
            /\ \A k \in 1..SegmentCount(m_route) :
                  \/ /\ IsParameter(Segment(m_route, k))
                     /\ Segment(NormalPath(m_path), k) # <<>>
                  \/ Segment(m_route, k) = Segment(NormalPath(m_path), k))

PushStep == pending' = pending + 1
RegisterStep == Len(reg_calls') = Len(reg_calls) + 1
ListenerStep == pc = "regen" \/ pc' = "regen"
NotificationStep == pc = "idle" /\ pc' = "regen" /\ pending' = pending - 1

\* C15: a push_route call leaves root_found and the registry unchanged and
\* makes no callback; root_found is reset and callbacks are made only by
\* the listener of the history's change notification.
C15_PushRouteOnlyForwards ==
    [][ /\ (PushStep => /\ root_found' = root_found
                        /\ slots' = slots
                        /\ regen_calls' = regen_calls
                        /\ pc' = pc)
        /\ (root_found /\ ~root_found' => NotificationStep)
        /\ (regen_calls' # regen_calls => ListenerStep) ]_vars

\* A cycle was won and then a path was pushed that the winner's pattern
\* does not claim: the flag is still set while the notification is pending.
C15_Witness ==
    /\ root_found
    /\ pending > 0
    /\ regen_calls # <<>>
    /\ \E i \in Winners : ~Eligible(slots, location, queries[i].scope)

\* C16: in a cycle with the path and the registry fixed, a should_render
\* call returns true exactly when its scope can claim (pattern matches or
\* is "") and no scope queried before it in the cycle can; a call that
\* returns false leaves root_found as it was.
C16_FirstMatchingCallerWins ==
    [][ QueryStep /\ FixedCycle =>
          /\ (Answer <=>
                /\ Eligible(slots, location, Asked)
                /\ \A k \in 1..Len(queries) :
                      ~Eligible(slots, location, queries[k].scope))
          /\ (~Answer => root_found' = root_found) ]_vars

\* A registered scope whose pattern cannot claim was refused with the flag
\* left clear, and the scope queried next won.
C16_Witness ==
    /\ FixedCycle
    /\ Len(queries) = 2
    /\ Registered(slots, queries[1].scope)
    /\ ~Eligible(slots, location, queries[1].scope)
    /\ ~queries[1].ret
    /\ queries[2].ret
    /\ root_found

\* C17: when should_render(s) finds root_found set, a scope other than s
\* has been granted the render in the current cycle.
C17_DeniedOnlyAfterAnotherWon ==
    [][ QueryStep /\ root_found =>
          \E k \in 1..Len(queries) :
              queries[k].ret /\ queries[k].scope # Asked ]_vars

\* C18: root_found is true iff a should_render call returned true since
\* the latest notification (or construction); a call that returns false
\* leaves it as it was; only a notification turns it from true to false.
C18_FlagIffClaimedThisCycle ==
    /\ [](root_found <=> Winners # {})
    /\ [][ /\ (QueryStep /\ ~Answer => root_found' = root_found)
           /\ (root_found /\ ~root_found' => NotificationStep) ]_vars

\* In the cycle after a won cycle a query was refused with the flag clear
\* and the next one claimed.
C18_Witness ==
    /\ prev_won
    /\ Len(queries) = 2
    /\ ~queries[1].ret
    /\ queries[2].ret
    /\ root_found

\* C19: no call reaches an error state, calls made from inside the regen
\* callback during a notification included.
C19_NoErrorState == ~panicked

\* C20: a register_total_route call appends (scope, normalized route) to
\* the registry whatever its fallback argument and changes nothing else;
\* the answer of a should_render call is a function of the flag, the
\* registry and the path, and a pattern that does not match the path
\* claims only when it is "".
C20_RegisterChangesOnlyRegistry ==
    [][ /\ (RegisterStep =>
              /\ slots' = Append(slots,
                     <<reg_calls'[Len(reg_calls')][2],
                       clean_route(reg_calls'[Len(reg_calls')][1])>>)
              /\ UNCHANGED <<root_found, location, pending, pc, idx,
                             regen_calls, queries>>)
        /\ (QueryStep =>
              (Answer <=> ~root_found /\ Eligible(slots, location, Asked)))
        /\ (/\ QueryStep
            /\ Answer
            /\ ~route_matches_path(slots[Earliest(slots, Asked)][2],
                                   location)
            => slots[Earliest(slots, Asked)][2] = <<>>) ]_vars

\* A scope registered with a claiming pattern in a cycle that was already
\* won has been refused.
C20_Witness ==
    /\ reg_in_cycle
    /\ pc = "idle"
    /\ Len(slots) = 2
    /\ Len(queries) = 2
    /\ queries[1].ret
    /\ queries[1].scope = slots[1][1]
    /\ queries[2].scope = slots[2][1]
    /\ slots[1][1] # slots[2][1]
    /\ Claims(slots[2][2], location)
    /\ ~queries[2].ret
====
